---- MODULE Spec2Model ----
(***************************************************************************)
(* A model of the order-sizing and trade-execution code of the trading    *)
(* bot: openai_trader.py (calculate_order_quantity,                        *)
(* calculate_futures_quantity, set_isolated_margin_and_leverage,           *)
(* execute_trade), the response parsing of main.py (send_to_openai) and    *)
(* its scheduler (main_loop).                                              *)
(*                                                                         *)
(* Numbers.  The code computes with Python floats.  The model computes    *)
(* with integers on decimal grids:                                         *)
(*   quantities (BTC)      in units of 10^-9 BTC   ("nano")                *)
(*   amounts    (USDT)     in units of 10^-4 USDT                          *)
(*   prices     (USDT/BTC) in units of 10^5  USDT per BTC                  *)
(* so that  amount / price  is a quantity in nano.  Where the outcome of a *)
(* float operation is not determined by the decimal values (a floor       *)
(* division whose quotient is a whole number, a round() on a tie) the      *)
(* model takes either outcome, chosen by a record of FloatOutcomes.        *)
(***************************************************************************)
EXTENDS Integers, Sequences, FiniteSets, TLC

VARIABLES
    pc,             \* position in the function being run
    decision,       \* execute_trade's / send_to_openai's decision
    reason,         \* execute_trade's / send_to_openai's reason
    ai_answer,      \* send_to_openai: the stripped content of the AI response
    balances,       \* execute_trade: asset -> free balance, entries > 0 only
    futuresWallet,  \* the exchange's actual free USDT futures balance
    use_amount,     \* the calculators' usdt_amount argument
    step_size,      \* the calculators' local step_size
    min_qty,        \* the calculators' local min_qty
    current_price,  \* the calculators' local current_price
    fp,             \* SpecQty: the float outcomes the calculation takes
    qty,            \* the calculators' return value
    calls,          \* the exchange calls of this invocation, in order
    outcome,        \* how the invocation ended
    report,         \* what this invocation has logged and printed, in order
    config_result,  \* what set_isolated_margin_and_leverage handed back
    interval_minutes, \* main_loop's argument
    cycle,          \* main_loop: the cycles started so far
    slept,          \* main_loop: the minutes of the current sleep gone by
    stop            \* main_loop: whether and how the loop has ended

\* main_loop's own state
loopVars == <<interval_minutes, cycle, slept, stop>>

vars == <<pc, decision, reason, ai_answer, balances, futuresWallet, use_amount,
          step_size, min_qty, current_price, fp, qty, calls, outcome,
          report, config_result, loopVars>>

----------------------------------------------------------------------------
(* Program constants, on the model's grids. *)

\* step_size = 0.000001 (openai_trader.py:34 and :71), in nano
DefaultStepSize == 1000
\* min_qty = 0.000001 (openai_trader.py:35 and :72), in nano
DefaultMinQty == 1000
\* round(quantity, 8): one unit of the 8th decimal place is 10 nano
RoundUnit == 10
\* my_usdt_futures = 100.0, in 10^-4 USDT
MyUsdtFutures == 1000000
\* my_usdt_spot >= 10, in 10^-4 USDT
MinUsdtSpot == 100000
\* my_btc_spot >= 0.0001, in nano
MinBtcSpot == 100000
\* my_usdt_spot * 0.9995 = my_usdt_spot * FeeNum / FeeDen
FeeNum == 9995
FeeDen == 10000

----------------------------------------------------------------------------
(* Bounds of the model. *)

\* SpecLoop: main_loop is followed for this many cycles
MaxCycles == 6
\* SpecLoop: interval_minutes ranges over 1..MaxIntervalMinutes
MaxIntervalMinutes == 3
\* SpecQty: usdt_amount ranges over 1..MaxNotional
MaxNotional == 24
\* SpecQty: current_price ranges over -1..MaxPrice
MaxPrice == 3
\* Spec: spot USDT balances are multiples of 0.2 USDT up to this many
MaxUsdtLots == 52
\* Spec: the highest price the ticker answers
HighPrice == 29

----------------------------------------------------------------------------
(* Float outcomes: low says that a floor division with a whole quotient   *)
(* lands one below it (0.001 // 0.00001 is 99.0 in Python); tieUp says    *)
(* that round() takes a value half way between two neighbours up.         *)
FloatOutcomes == [low : BOOLEAN, tieUp : BOOLEAN]

\* ai_answer before an answer has come
NoAnswer == [kind |-> "none", has_decision |-> FALSE, decision_is_str |-> FALSE,
             decision |-> "", has_reason |-> FALSE, reason |-> ""]

----------------------------------------------------------------------------
(* The arithmetic of the calculators. *)

\* Python's floor of a / b for integers, b # 0
FloorDiv(a, b) ==
    IF b > 0 THEN a \div b ELSE (0 - a) \div (0 - b)

\* quantity // step_size, where quantity = usdt_amount / current_price:
\* the whole number of steps in the quotient; step_size > 0, price # 0
StepsIn(usdt_amount, price, step, f) ==
    LET exact == FloorDiv(usdt_amount, price * step)
        whole == usdt_amount % (IF price * step > 0 THEN price * step
                                ELSE 0 - price * step) = 0
    IN  IF whole /\ f.low /\ exact # 0 THEN exact - 1 ELSE exact

\* round(quantity, 8) for quantity >= 0 in nano
Round8(quantity, f) ==
    LET down == (quantity \div RoundUnit) * RoundUnit
        rest == quantity - down
    IN  IF 2 * rest < RoundUnit THEN down
        ELSE IF 2 * rest > RoundUnit THEN down + RoundUnit
        ELSE IF f.tieUp THEN down + RoundUnit ELSE down

\* QuantityFor without the check against the minimum
QuantityForNoMinimum(usdt_amount, price, step, minq, f) ==
    IF price = 0 THEN 0
    ELSE IF step = 0 THEN 0
    ELSE Round8(StepsIn(usdt_amount, price, step, f) * step, f)

\* openai_trader.py:43-54 and :85-97, the part both calculators share:
\* the price check, the quantization, the minimum and the rounding
QuantityFor(usdt_amount, price, step, minq, f) ==
    IF price = 0 THEN 0
    ELSE IF step = 0 THEN 0        \* ZeroDivisionError, caught: return 0
    ELSE LET quantity == StepsIn(usdt_amount, price, step, f) * step
         IN  IF quantity < minq THEN 0
             ELSE Round8(quantity, f)

----------------------------------------------------------------------------
(* The exchange's answers, as the calculators read them.                   *)
(*   symbol info : ok (no exception, not None), listed (futures: the       *)
(*                 symbol is in the list), lot_size (a LOT_SIZE filter is  *)
(*                 there), step, minq (its stepSize and minQty)            *)
(*   ticker      : ok, has_price ('price' in ticker), price                *)

StepSizes == {0, 1, 3, 10, 1000}
MinQtys == {1, 12, 1000}

SymbolInfos ==
    [ok : {TRUE}, listed : BOOLEAN, lot_size : {TRUE}, step : StepSizes, minq : MinQtys]
    \cup [ok : BOOLEAN, listed : BOOLEAN, lot_size : {FALSE}, step : {0}, minq : {0}]

TickerPrices == {-1, 0, 1, HighPrice}

Tickers ==
    [ok : {TRUE}, has_price : {TRUE}, price : TickerPrices]
    \cup [ok : BOOLEAN, has_price : {FALSE}, price : {0}]

\* openai_trader.py:34-40: the first LOT_SIZE filter, else the defaults
SpotStepSize(info) == IF info.lot_size THEN info.step ELSE DefaultStepSize
SpotMinQty(info) == IF info.lot_size THEN info.minq ELSE DefaultMinQty

\* openai_trader.py:71-80: the symbol's LOT_SIZE filter, else the defaults
FuturesStepSize(info) ==
    IF info.listed /\ info.lot_size THEN info.step ELSE DefaultStepSize
FuturesMinQty(info) ==
    IF info.listed /\ info.lot_size THEN info.minq ELSE DefaultMinQty

\* openai_trader.py:43 and :85: float(ticker['price']) if 'price' in ticker else 0
TickerPrice(ticker) == IF ticker.has_price THEN ticker.price ELSE 0

\* calculate_order_quantity(symbol, usdt_amount), given the exchange's answers
calculate_order_quantity(info, ticker, usdt_amount, f) ==
    IF ~info.ok THEN 0             \* exception in or after get_symbol_info
    ELSE IF ~ticker.ok THEN 0      \* exception in get_symbol_ticker
    ELSE QuantityFor(usdt_amount, TickerPrice(ticker),
                     SpotStepSize(info), SpotMinQty(info), f)

\* calculate_futures_quantity(symbol, usdt_amount), given the exchange's answers
calculate_futures_quantity(info, ticker, usdt_amount, f) ==
    IF ~info.ok THEN 0             \* exception in futures_exchange_info
    ELSE IF ~ticker.ok THEN 0      \* exception in futures_symbol_ticker
    ELSE QuantityFor(usdt_amount, TickerPrice(ticker),
                     FuturesStepSize(info), FuturesMinQty(info), f)

----------------------------------------------------------------------------
(* SpecQty: the calculators as functions of their inputs. *)

NoBalances == [a \in {} |-> 0]
\* main_loop is not running
NoLoop == interval_minutes = 0 /\ cycle = 0 /\ slept = 0 /\ stop = "none"

QtyInit ==
    /\ pc = "qty_input"
    /\ use_amount \in 1..MaxNotional
    /\ current_price \in (0 - 1)..MaxPrice
    /\ step_size \in StepSizes
    /\ min_qty \in MinQtys
    /\ fp \in FloatOutcomes
    /\ qty = 0
    /\ decision = "" /\ reason = "" /\ ai_answer = NoAnswer
    /\ balances = NoBalances /\ futuresWallet = 0
    /\ calls = <<>> /\ outcome = "none"
    /\ report = <<>> /\ config_result = "unset"
    /\ NoLoop

GivenInfo == [ok |-> TRUE, listed |-> TRUE, lot_size |-> TRUE,
              step |-> step_size, minq |-> min_qty]
GivenTicker == [ok |-> TRUE, has_price |-> TRUE, price |-> current_price]

ApplySpot ==
    /\ pc = "qty_input"
    /\ qty' = calculate_order_quantity(GivenInfo, GivenTicker, use_amount, fp)
    /\ pc' = "qty_spot"
    /\ UNCHANGED <<decision, reason, ai_answer, balances, futuresWallet,
                   use_amount, step_size, min_qty, current_price, fp, calls,
                   outcome, report, config_result, loopVars>>

ApplyFutures ==
    /\ pc = "qty_input"
    /\ qty' = calculate_futures_quantity(GivenInfo, GivenTicker, use_amount, fp)
    /\ pc' = "qty_futures"
    /\ UNCHANGED <<decision, reason, ai_answer, balances, futuresWallet,
                   use_amount, step_size, min_qty, current_price, fp, calls,
                   outcome, report, config_result, loopVars>>

QtyNext == ApplySpot \/ ApplyFutures

SpecQty == QtyInit /\ [][QtyNext]_vars

----------------------------------------------------------------------------
(* Spec: execute_trade(decision, reason), invoked again and again. *)

\* decisions a caller can pass: the five of the docstring and others
Decisions == {"long", "short", "buy", "sell", "hold", "wait", "BUY", " sell"}
Reasons == {"", "uptrend"}

\* free balances the exchange reports, and its actual futures balance
UsdtBalances == {0, 98000, MinUsdtSpot, MaxUsdtLots * 2000}
BtcBalances == {0, 50000, MinBtcSpot, 123456}
FuturesWallets == {0, 500000, MyUsdtFutures}

OrderOps == {"futures_create_order", "order_market_buy", "order_market_sell"}

\* how a margin-type or leverage change ends: it returns (""), the exchange
\* answers that nothing needs changing ("no_change"), or it fails for
\* another cause such as an invalid symbol or missing permissions ("genuine")
ConfigOutcomes == {"", "no_change", "genuine"}

\* one exchange call: the client method, whether it returned, its arguments,
\* the cause when a configuration call raised (err), and for a read whether
\* the answer held what was looked for (found)
Call(op, ok) ==
    [op |-> op, ok |-> ok, side |-> "", positionSide |-> "", quantity |-> 0,
     err |-> "", found |-> FALSE]
OrderCall(op, ok, side, positionSide, quantity) ==
    [op |-> op, ok |-> ok, side |-> side, positionSide |-> positionSide,
     quantity |-> quantity, err |-> "", found |-> FALSE]
ConfigCall(op, err) == [Call(op, err = "") EXCEPT !.err = err]
ReadCall(op, ok, found) == [Call(op, ok) EXCEPT !.found = ok /\ found]

\* one line of what the invocation logs and prints: the level, what it is
\* about, and the decision reason when the line carries it
Report(level, event) ==
    [level |-> level, event |-> event, with_reason |-> FALSE, reason |-> ""]
ReportWith(level, event, r) ==
    [level |-> level, event |-> event, with_reason |-> TRUE, reason |-> r]

\* openai_trader.py:142-146: the entries of the payload with free > 0
Snapshot(payload) ==
    [a \in {x \in DOMAIN payload : payload[x] > 0} |-> payload[a]]
\* balances.get(asset, 0)
Get(b, asset) == IF asset \in DOMAIN b THEN b[asset] ELSE 0
\* openai_trader.py:147
my_usdt_spot == Get(balances, "USDT")
\* openai_trader.py:243
my_btc_spot == Get(balances, "BTC")
\* openai_trader.py:152: the futures balance is not read, it is assumed
my_usdt_futures == MyUsdtFutures
\* openai_trader.py:217: my_usdt_spot * 0.9995
SpotBuyAmount(usdt) == (usdt * FeeNum) \div FeeDen

\* PositionSide that opens every position as LONG
PositionSideLong(d) == "LONG"

\* openai_trader.py:168-169 and :196-197
OrderSide(d) == IF d = "long" THEN "BUY" ELSE "SELL"
PositionSide(d) == IF d = "long" THEN "LONG" ELSE "SHORT"

Init ==
    /\ pc = "idle"
    /\ decision = "" /\ reason = "" /\ ai_answer = NoAnswer
    /\ balances = NoBalances
    /\ futuresWallet \in FuturesWallets
    /\ use_amount = 0 /\ step_size = 0 /\ min_qty = 0 /\ current_price = 0
    /\ fp = [low |-> FALSE, tieUp |-> FALSE]
    /\ qty = 0 /\ calls = <<>> /\ outcome = "none"
    /\ report = <<>> /\ config_result = "unset"
    /\ NoLoop

\* a caller invokes execute_trade(d, r); the exchange holds what it holds
ExecuteTrade ==
    /\ pc = "idle"
    /\ \E d \in Decisions, r \in Reasons, w \in FuturesWallets :
          /\ decision' = d
          /\ reason' = r
          /\ futuresWallet' = w
    /\ pc' = "get_account"
    /\ UNCHANGED <<ai_answer, balances, use_amount, step_size, min_qty,
                   current_price, fp, qty, calls, outcome, report,
                   config_result, loopVars>>

\* openai_trader.py:141-152, and :268-270 when the read or its parsing raises
GetAccount ==
    /\ pc = "get_account"
    /\ \/ \E u \in UsdtBalances, b \in BtcBalances :
             /\ balances' = Snapshot([USDT |-> u, BTC |-> b])
             /\ calls' = Append(calls, Call("get_account", TRUE))
             /\ pc' = "dispatch"
             /\ UNCHANGED <<outcome, report>>
       \/ /\ calls' = Append(calls, Call("get_account", FALSE))
          /\ pc' = "return"
          /\ outcome' = "Aborted"
          /\ report' = Append(report, Report("error", "trade_error"))
          /\ balances' = balances
    /\ UNCHANGED <<decision, reason, ai_answer, futuresWallet, use_amount,
                   step_size, min_qty, current_price, fp, qty,
                   config_result, loopVars>>

\* Dispatch with the final else attached to the sell branch: whatever is not
\* long, short or buy is sold
DispatchElseSells ==
    /\ pc = "dispatch"
    /\ IF decision = "long" \/ decision = "short"
         THEN pc' = "margin_type" /\ UNCHANGED <<outcome, report>>
       ELSE IF decision = "buy"
         THEN IF my_usdt_spot >= MinUsdtSpot
                THEN pc' = "spot_quantity" /\ UNCHANGED <<outcome, report>>
                ELSE /\ pc' = "return" /\ outcome' = "Skipped"
                     /\ report' = Append(report, Report("info", "buy_below_minimum"))
       ELSE IF my_btc_spot >= MinBtcSpot
                THEN pc' = "spot_sell" /\ UNCHANGED <<outcome, report>>
                ELSE /\ pc' = "return" /\ outcome' = "Skipped"
                     /\ report' = Append(report, Report("info", "sell_below_minimum"))
    /\ UNCHANGED <<decision, reason, ai_answer, balances, futuresWallet,
                   use_amount, step_size, min_qty, current_price, fp, qty,
                   calls, config_result, loopVars>>

\* openai_trader.py:157, :186, :214-216 with :234-236, :241-244 with
\* :257-259, :264-266: the branch taken
Dispatch ==
    /\ pc = "dispatch"
    /\ IF decision = "long" \/ decision = "short"
         THEN pc' = "margin_type" /\ UNCHANGED <<outcome, report>>
       ELSE IF decision = "buy"
         THEN IF my_usdt_spot >= MinUsdtSpot
                THEN pc' = "spot_quantity" /\ UNCHANGED <<outcome, report>>
                ELSE /\ pc' = "return" /\ outcome' = "Skipped"
                     /\ report' = Append(report, Report("info", "buy_below_minimum"))
       ELSE IF decision = "sell"
         THEN IF my_btc_spot >= MinBtcSpot
                THEN pc' = "spot_sell" /\ UNCHANGED <<outcome, report>>
                ELSE /\ pc' = "return" /\ outcome' = "Skipped"
                     /\ report' = Append(report, Report("info", "sell_below_minimum"))
       ELSE /\ pc' = "return" /\ outcome' = "Skipped"
            /\ report' = Append(report, ReportWith("info", "hold", reason))
    /\ UNCHANGED <<decision, reason, ai_answer, balances, futuresWallet,
                   use_amount, step_size, min_qty, current_price, fp, qty,
                   calls, config_result, loopVars>>

\* the line a configuration call leaves in the log: info when it returned,
\* a warning with the same wording whatever made it raise
ConfigReport(setting, err) ==
    IF err = "" THEN Report("info", setting)
    ELSE Report("warning", setting)

\* SetMarginType with both settings in one try block: when the margin type
\* raises, the leverage is not attempted
SetMarginTypeOneTry ==
    /\ pc = "margin_type"
    /\ \E err \in ConfigOutcomes :
          /\ calls' = Append(calls, ConfigCall("futures_change_margin_type", err))
          /\ report' = Append(report, ConfigReport("margin_type", err))
          /\ pc' = IF err = "" THEN "leverage" ELSE "futures_quantity"
          /\ config_result' = IF err = "" THEN config_result ELSE "None"
    /\ UNCHANGED <<decision, reason, ai_answer, balances, futuresWallet,
                   use_amount, step_size, min_qty, current_price, fp, qty,
                   outcome, loopVars>>

\* openai_trader.py:107-115: an exception is logged as a warning
SetMarginType ==
    /\ pc = "margin_type"
    /\ \E err \in ConfigOutcomes :
          /\ calls' = Append(calls, ConfigCall("futures_change_margin_type", err))
          /\ report' = Append(report, ConfigReport("margin_type", err))
    /\ pc' = "leverage"
    /\ UNCHANGED <<decision, reason, ai_answer, balances, futuresWallet,
                   use_amount, step_size, min_qty, current_price, fp, qty,
                   outcome, config_result, loopVars>>

\* SetLeverage that gives up the trade when the leverage cannot be set
SetLeverageOrAbort ==
    /\ pc = "leverage"
    /\ \E err \in ConfigOutcomes :
          /\ calls' = Append(calls, ConfigCall("futures_change_leverage", err))
          /\ report' = Append(report, ConfigReport("leverage", err))
          /\ pc' = IF err = "" THEN "futures_quantity" ELSE "return"
          /\ outcome' = IF err = "" THEN outcome ELSE "Failed"
    /\ config_result' = "None"
    /\ UNCHANGED <<decision, reason, ai_answer, balances, futuresWallet,
                   use_amount, step_size, min_qty, current_price, fp, qty,
                   loopVars>>

\* openai_trader.py:117-125: an exception is logged as a warning; the
\* function then ends without a return statement, so it hands None to
\* execute_trade whatever the two calls did
SetLeverage ==
    /\ pc = "leverage"
    /\ \E err \in ConfigOutcomes :
          /\ calls' = Append(calls, ConfigCall("futures_change_leverage", err))
          /\ report' = Append(report, ConfigReport("leverage", err))
    /\ config_result' = "None"
    /\ pc' = "futures_quantity"
    /\ UNCHANGED <<decision, reason, ai_answer, balances, futuresWallet,
                   use_amount, step_size, min_qty, current_price, fp, qty,
                   outcome, loopVars>>

\* the reads a calculator makes: the ticker is read only after the info;
\* lotFound says that the info held a LOT_SIZE filter for the symbol
InfoCalls(infoOp, tickerOp, info, ticker, lotFound) ==
    IF info.ok
      THEN <<ReadCall(infoOp, TRUE, lotFound),
             ReadCall(tickerOp, ticker.ok, ticker.has_price)>>
      ELSE <<ReadCall(infoOp, FALSE, FALSE)>>

\* openai_trader.py:50-52, :55-57 and :93-95, :98-100: what a calculator logs
QuantityLog(info, ticker, usdt_amount, step, minq, f) ==
    IF ~info.ok \/ ~ticker.ok THEN <<Report("error", "quantity_error")>>
    ELSE IF TickerPrice(ticker) = 0 THEN <<>>
    ELSE IF step = 0 THEN <<Report("error", "quantity_error")>>
    ELSE IF StepsIn(usdt_amount, TickerPrice(ticker), step, f) * step < minq
      THEN <<Report("warning", "quantity_below_minimum")>>
    ELSE <<>>

\* openai_trader.py:160-162 and :188-190 with calculate_futures_quantity,
\* and :179-181, :207-209 when the quantity is 0
CalcFuturesQuantity ==
    /\ pc = "futures_quantity"
    /\ use_amount' = my_usdt_futures
    /\ \E info \in SymbolInfos, ticker \in Tickers, f \in FloatOutcomes :
          /\ step_size' = FuturesStepSize(info)
          /\ min_qty' = FuturesMinQty(info)
          /\ current_price' = TickerPrice(ticker)
          /\ qty' = calculate_futures_quantity(info, ticker, use_amount', f)
          /\ calls' = calls \o InfoCalls("futures_exchange_info",
                                         "futures_symbol_ticker", info, ticker,
                                         info.listed /\ info.lot_size)
          /\ report' = report
                \o QuantityLog(info, ticker, use_amount', step_size', min_qty', f)
                \o (IF qty' > 0 THEN <<>>
                    ELSE <<Report("info", "quantity_zero")>>)
    /\ IF qty' > 0
         THEN pc' = "futures_order" /\ outcome' = outcome
         ELSE pc' = "return" /\ outcome' = "Skipped"
    /\ UNCHANGED <<decision, reason, ai_answer, balances, futuresWallet, fp,
                   config_result, loopVars>>

\* openai_trader.py:173-178 and the like: a placed order is logged and the
\* reason printed after it; a raised one is logged with the exception only
OrderReport(ok, r) ==
    IF ok THEN ReportWith("info", "order_executed", r)
    ELSE Report("error", "order_error")

\* openai_trader.py:163-178 and :191-206
FuturesOrder ==
    /\ pc = "futures_order"
    /\ \E ok \in BOOLEAN :
          /\ calls' = Append(calls, OrderCall("futures_create_order", ok,
                                OrderSide(decision), PositionSide(decision), qty))
          /\ outcome' = IF ok THEN "Executed" ELSE "Failed"
          /\ report' = Append(report, OrderReport(ok, reason))
    /\ pc' = "return"
    /\ UNCHANGED <<decision, reason, ai_answer, balances, futuresWallet,
                   use_amount, step_size, min_qty, current_price, fp, qty,
                   config_result, loopVars>>

\* openai_trader.py:217-218 with calculate_order_quantity, and :231-233
CalcOrderQuantity ==
    /\ pc = "spot_quantity"
    /\ use_amount' = SpotBuyAmount(my_usdt_spot)
    /\ \E info \in SymbolInfos, ticker \in Tickers, f \in FloatOutcomes :
          /\ step_size' = SpotStepSize(info)
          /\ min_qty' = SpotMinQty(info)
          /\ current_price' = TickerPrice(ticker)
          /\ qty' = calculate_order_quantity(info, ticker, use_amount', f)
          /\ calls' = calls \o InfoCalls("get_symbol_info",
                                         "get_symbol_ticker", info, ticker,
                                         info.lot_size)
          /\ report' = report
                \o QuantityLog(info, ticker, use_amount', step_size', min_qty', f)
                \o (IF qty' > 0 THEN <<>>
                    ELSE <<Report("info", "quantity_zero")>>)
    /\ IF qty' > 0
         THEN pc' = "spot_buy" /\ outcome' = outcome
         ELSE pc' = "return" /\ outcome' = "Skipped"
    /\ UNCHANGED <<decision, reason, ai_answer, balances, futuresWallet, fp,
                   config_result, loopVars>>

\* openai_trader.py:219-230
SpotBuy ==
    /\ pc = "spot_buy"
    /\ \E ok \in BOOLEAN :
          /\ calls' = Append(calls, OrderCall("order_market_buy", ok, "", "", qty))
          /\ outcome' = IF ok THEN "Executed" ELSE "Failed"
          /\ report' = Append(report, OrderReport(ok, reason))
    /\ pc' = "return"
    /\ UNCHANGED <<decision, reason, ai_answer, balances, futuresWallet,
                   use_amount, step_size, min_qty, current_price, fp, qty,
                   config_result, loopVars>>

\* SpotSell that tries the order again when it has raised
SpotSellRetry ==
    /\ pc = "spot_sell"
    /\ \E ok \in BOOLEAN :
          /\ calls' = Append(calls, OrderCall("order_market_sell", ok, "", "",
                                              my_btc_spot))
          /\ outcome' = IF ok THEN "Executed" ELSE "Failed"
          /\ report' = Append(report, OrderReport(ok, reason))
          /\ pc' = IF ok THEN "return" ELSE "spot_sell"
    /\ UNCHANGED <<decision, reason, ai_answer, balances, futuresWallet,
                   use_amount, step_size, min_qty, current_price, fp, qty,
                   config_result, loopVars>>

\* SpotSell that sells the balance cut down to the default step
SpotSellQuantized ==
    /\ pc = "spot_sell"
    /\ \E ok \in BOOLEAN :
          /\ calls' = Append(calls, OrderCall("order_market_sell", ok, "", "",
                         (my_btc_spot \div DefaultStepSize) * DefaultStepSize))
          /\ outcome' = IF ok THEN "Executed" ELSE "Failed"
          /\ report' = Append(report, OrderReport(ok, reason))
    /\ pc' = "return"
    /\ UNCHANGED <<decision, reason, ai_answer, balances, futuresWallet,
                   use_amount, step_size, min_qty, current_price, fp, qty,
                   config_result, loopVars>>

\* openai_trader.py:245-256
SpotSell ==
    /\ pc = "spot_sell"
    /\ \E ok \in BOOLEAN :
          /\ calls' = Append(calls, OrderCall("order_market_sell", ok, "", "",
                                              my_btc_spot))
          /\ outcome' = IF ok THEN "Executed" ELSE "Failed"
          /\ report' = Append(report, OrderReport(ok, reason))
    /\ pc' = "return"
    /\ UNCHANGED <<decision, reason, ai_answer, balances, futuresWallet,
                   use_amount, step_size, min_qty, current_price, fp, qty,
                   config_result, loopVars>>

\* execute_trade returns to its caller: its locals are gone
Return ==
    /\ pc = "return"
    /\ pc' = "idle"
    /\ decision' = "" /\ reason' = ""
    /\ balances' = NoBalances
    /\ use_amount' = 0 /\ step_size' = 0 /\ min_qty' = 0 /\ current_price' = 0
    /\ qty' = 0 /\ calls' = <<>> /\ outcome' = "none"
    /\ report' = <<>> /\ config_result' = "unset"
    /\ UNCHANGED <<ai_answer, futuresWallet, fp, loopVars>>

Next ==
    \/ ExecuteTrade
    \/ GetAccount
    \/ Dispatch
    \/ SetMarginType
    \/ SetLeverage
    \/ CalcFuturesQuantity
    \/ FuturesOrder
    \/ CalcOrderQuantity
    \/ SpotBuy
    \/ SpotSell
    \/ Return

Spec == Init /\ [][Next]_vars

----------------------------------------------------------------------------
(* SpecInterp: send_to_openai(data), from the API call on (main.py:45-77). *)
(* An answer is the stripped content of the response:                      *)
(*   kind "invalid"  json.loads raises JSONDecodeError                     *)
(*   kind "array", "string", "number", "null"  a JSON value without .get   *)
(*   kind "object"   with or without "decision" (a string or not) and     *)
(*                   "reason"                                              *)

DecisionTexts == {"long", "short", "buy", "sell", "hold", "BUY", "Sell", "HOLD",
                  "Long", "SHORT", " buy", "wait", "WAIT", ""}
ReasonTexts == {"", "uptrend", "downtrend"}

\* str.lower() on the strings of DecisionTexts
Lower(s) ==
    CASE s = "BUY" -> "buy"
      [] s = "Sell" -> "sell"
      [] s = "HOLD" -> "hold"
      [] s = "Long" -> "long"
      [] s = "SHORT" -> "short"
      [] s = "WAIT" -> "wait"
      [] OTHER -> s

Answers ==
    [kind : {"invalid", "array", "string", "number", "null"},
     has_decision : {FALSE}, decision_is_str : {FALSE}, decision : {""},
     has_reason : {FALSE}, reason : {""}]
    \cup [kind : {"object"}, has_decision : {TRUE}, decision_is_str : {TRUE},
          decision : DecisionTexts, has_reason : {TRUE}, reason : ReasonTexts]
    \cup [kind : {"object"}, has_decision : {TRUE}, decision_is_str : {TRUE},
          decision : DecisionTexts, has_reason : {FALSE}, reason : {""}]
    \cup [kind : {"object"}, has_decision : BOOLEAN, decision_is_str : {FALSE},
          decision : {""}, has_reason : {TRUE}, reason : ReasonTexts]
    \cup [kind : {"object"}, has_decision : BOOLEAN, decision_is_str : {FALSE},
          decision : {""}, has_reason : {FALSE}, reason : {""}]

\* the texts of main.py:60, :70 and :74 (the first two are Korean in the code)
ApiErrorReason == "OpenAI API request error"
JsonFailedReason == "JSON parse failed"
ParseErrorReason == "Error parsing AI response"
\* main.py:66
DefaultReason == "No reason provided."

\* main.py:64-65: the except clause that parsing the decision ends in, if any
ParseRaises(a) ==
    IF a.kind = "invalid" THEN "JSONDecodeError"
    ELSE IF a.kind # "object" THEN "Exception"      \* no attribute 'get'
    ELSE IF a.has_decision /\ ~a.decision_is_str
        THEN "Exception"                            \* no attribute 'lower'
    ELSE "none"

\* ParsedDecision that takes an answer it cannot parse for a buy
ParsedDecisionGuess(a) ==
    IF ParseRaises(a) # "none" THEN "buy"
    ELSE IF a.has_decision THEN Lower(a.decision)
    ELSE Lower("hold")

\* main.py:63-75: the decision send_to_openai returns for an answer
ParsedDecision(a) ==
    IF ParseRaises(a) # "none" THEN "hold"
    ELSE IF a.has_decision THEN Lower(a.decision)
    ELSE Lower("hold")

\* main.py:63-75: the reason send_to_openai returns for an answer
ParsedReason(a) ==
    IF ParseRaises(a) = "JSONDecodeError" THEN JsonFailedReason
    ELSE IF ParseRaises(a) = "Exception" THEN ParseErrorReason
    ELSE IF a.has_reason THEN a.reason
    ELSE DefaultReason

InterpInit ==
    /\ pc = "openai_call"
    /\ decision = "" /\ reason = "" /\ ai_answer = NoAnswer
    /\ balances = NoBalances /\ futuresWallet = 0
    /\ use_amount = 0 /\ step_size = 0 /\ min_qty = 0 /\ current_price = 0
    /\ fp = [low |-> FALSE, tieUp |-> FALSE]
    /\ qty = 0 /\ calls = <<>> /\ outcome = "none"
    /\ report = <<>> /\ config_result = "unset"
    /\ NoLoop

\* main.py:45-60: the API call, which answers or raises
CallOpenAI ==
    /\ pc = "openai_call"
    /\ \/ \E a \in Answers :
             /\ ai_answer' = a
             /\ pc' = "parse"
             /\ UNCHANGED <<decision, reason>>
       \/ /\ decision' = "hold"
          /\ reason' = ApiErrorReason
          /\ pc' = "returned"
          /\ UNCHANGED ai_answer
    /\ UNCHANGED <<balances, futuresWallet, use_amount, step_size, min_qty,
                   current_price, fp, qty, calls, outcome, report,
                   config_result, loopVars>>

\* main.py:62-77
ParseAnswer ==
    /\ pc = "parse"
    /\ decision' = ParsedDecision(ai_answer)
    /\ reason' = ParsedReason(ai_answer)
    /\ pc' = "returned"
    /\ UNCHANGED <<ai_answer, balances, futuresWallet, use_amount, step_size,
                   min_qty, current_price, fp, qty, calls, outcome, report,
                   config_result, loopVars>>

InterpNext == CallOpenAI \/ ParseAnswer

SpecInterp == InterpInit /\ [][InterpNext]_vars

----------------------------------------------------------------------------
(* SpecCycle: steps 3 and 4 of a cycle (main.py:100-103): the decision and *)
(* the reason send_to_openai returns are handed to execute_trade.          *)

CycleInit == InterpInit

\* main.py:100-103: decision, reason = send_to_openai(...), then
\* openai_trader.execute_trade(decision, reason)
PassDecision ==
    /\ pc = "returned"
    /\ pc' = "get_account"
    /\ UNCHANGED <<decision, reason, ai_answer, balances, futuresWallet,
                   use_amount, step_size, min_qty, current_price, fp, qty,
                   calls, outcome, report, config_result, loopVars>>

CycleNext ==
    \/ CallOpenAI
    \/ ParseAnswer
    \/ PassDecision
    \/ GetAccount
    \/ Dispatch
    \/ SetMarginType
    \/ SetLeverage
    \/ CalcFuturesQuantity
    \/ FuturesOrder
    \/ CalcOrderQuantity
    \/ SpotBuy
    \/ SpotSell
    \/ Return

SpecCycle == CycleInit /\ [][CycleNext]_vars

----------------------------------------------------------------------------
(* SpecLoop: main_loop(interval_minutes) (main.py:79-120).  The data        *)
(* gathering of a cycle is the call data_fetcher.get_data_for_ai() on the   *)
(* module (main.py:94).  data_fetcher.py defines get_data_for_ai and        *)
(* preprocess_data_for_api as methods of the class DataFetcher only, so the *)
(* attribute lookup on the module raises AttributeError in every cycle and  *)
(* the cycle goes to the handler of main.py:115-120.  time.sleep is taken   *)
(* minute by minute.  A KeyboardInterrupt can arrive at any position.       *)

LoopInit ==
    /\ pc = "loop_top"
    /\ interval_minutes \in 1..MaxIntervalMinutes
    /\ cycle = 0 /\ slept = 0 /\ stop = "running"
    /\ decision = "" /\ reason = "" /\ ai_answer = NoAnswer
    /\ balances = NoBalances /\ futuresWallet = 0
    /\ use_amount = 0 /\ step_size = 0 /\ min_qty = 0 /\ current_price = 0
    /\ fp = [low |-> FALSE, tieUp |-> FALSE]
    /\ qty = 0 /\ calls = <<>> /\ outcome = "none"
    /\ report = <<>> /\ config_result = "unset"

\* main.py:88-91: a cycle starts
StartCycle ==
    /\ pc = "loop_top"
    /\ cycle < MaxCycles
    /\ cycle' = cycle + 1
    /\ report' = <<Report("info", "cycle_start")>>
    /\ pc' = "gather"
    /\ UNCHANGED <<decision, reason, ai_answer, balances, futuresWallet,
                   use_amount, step_size, min_qty, current_price, fp, qty,
                   calls, outcome, config_result, interval_minutes, slept, stop>>

\* GetDataForAi whose exception is not caught and ends the loop
GetDataForAiUncaught ==
    /\ pc = "gather"
    /\ pc' = "done"
    /\ stop' = "crashed"
    /\ UNCHANGED <<decision, reason, ai_answer, balances, futuresWallet,
                   use_amount, step_size, min_qty, current_price, fp, qty,
                   calls, outcome, report, config_result, interval_minutes,
                   cycle, slept>>

\* main.py:94 and :115-119: the lookup of get_data_for_ai on the module
\* raises AttributeError, which the handler of the cycle logs
GetDataForAi ==
    /\ pc = "gather"
    /\ report' = Append(report, Report("error", "main_loop_error"))
    /\ slept' = 0
    /\ pc' = "error_sleep"
    /\ UNCHANGED <<decision, reason, ai_answer, balances, futuresWallet,
                   use_amount, step_size, min_qty, current_price, fp, qty,
                   calls, outcome, config_result, interval_minutes, cycle, stop>>

\* main.py:120: a minute of time.sleep(interval_seconds) goes by
SleepMinute ==
    /\ pc = "error_sleep"
    /\ slept < interval_minutes
    /\ slept' = slept + 1
    /\ UNCHANGED <<pc, decision, reason, ai_answer, balances, futuresWallet,
                   use_amount, step_size, min_qty, current_price, fp, qty,
                   calls, outcome, report, config_result, interval_minutes,
                   cycle, stop>>

\* main.py:120 and :88: the sleep is over and the loop goes round
WakeUp ==
    /\ pc = "error_sleep"
    /\ slept = interval_minutes
    /\ slept' = 0
    /\ pc' = "loop_top"
    /\ UNCHANGED <<decision, reason, ai_answer, balances, futuresWallet,
                   use_amount, step_size, min_qty, current_price, fp, qty,
                   calls, outcome, report, config_result, interval_minutes,
                   cycle, stop>>

\* main.py:110-113: a KeyboardInterrupt raised inside the try block is
\* caught and breaks the loop; one raised in the handler of :115-120 (its
\* sleep included) or between two cycles is outside the try block and
\* leaves main_loop as it is
KeyboardInterrupt ==
    /\ stop = "running"
    /\ pc \in {"loop_top", "gather", "error_sleep"}
    /\ stop' = IF pc = "gather" THEN "stopped" ELSE "uncaught"
    /\ pc' = "done"
    /\ UNCHANGED <<decision, reason, ai_answer, balances, futuresWallet,
                   use_amount, step_size, min_qty, current_price, fp, qty,
                   calls, outcome, report, config_result, interval_minutes,
                   cycle, slept>>

\* the steps main_loop takes by itself
LoopStep == StartCycle \/ GetDataForAi \/ SleepMinute \/ WakeUp

LoopNext ==
    \/ StartCycle
    \/ GetDataForAi
    \/ SleepMinute
    \/ WakeUp
    \/ KeyboardInterrupt

SpecLoop == LoopInit /\ [][LoopNext]_vars

\* the interpreter runs the loop on and time passes
SpecLoopFair == SpecLoop /\ WF_vars(LoopStep)

----------------------------------------------------------------------------
(* The claims. *)

\* the positions of the order-placement calls of this invocation
OrderIndices == {i \in DOMAIN calls : calls[i].op \in OrderOps}
\* get_account returned and the snapshot was built
SnapshotTaken == Len(calls) >= 1 /\ calls[1].op = "get_account" /\ calls[1].ok
\* a calculator has returned in SpecQty
QtyApplied == pc \in {"qty_spot", "qty_futures"}

\* C1: in one invocation of execute_trade, whatever the decision and
\* whichever exchange calls fail, at most one order-placement call is made;
\* a failed order call is therefore never issued again.
C1_AtMostOneOrder == Cardinality(OrderIndices) <= 1

\* C1's case: an invocation ends after its order call has failed
C1_FailedOrderSeen ==
    /\ pc = "return"
    /\ outcome = "Failed"
    /\ \E i \in OrderIndices : ~calls[i].ok

\* C2 (as claimed): for an answer that is unparseable, is no JSON object, or
\* carries a decision whose lower-cased value is none of the five,
\* send_to_openai returns the decision hold with a non-empty reason.
Recognized == {"long", "short", "buy", "sell", "hold"}
Malformed(a) ==
    \/ a.kind \in {"invalid", "array", "string", "number", "null"}
    \/ /\ a.kind = "object" /\ a.has_decision /\ a.decision_is_str
       /\ Lower(a.decision) \notin Recognized
C2_MalformedGivesHold ==
    (pc = "returned" /\ Malformed(ai_answer))
        => (decision = "hold" /\ reason # "")

\* The calculators' float operations have outcomes the decimal values do
\* not determine, so C3 to C5 are read with the outcome that suits the claim
\* best: each formula is violated only by inputs that break the claim under
\* every float outcome.  QtyUnder(f) is what the applied calculator returns
\* for the inputs of this state under the outcomes f.
QtyUnder(f) ==
    IF pc = "qty_spot"
      THEN calculate_order_quantity(GivenInfo, GivenTicker, use_amount, f)
      ELSE calculate_futures_quantity(GivenInfo, GivenTicker, use_amount, f)

\* C3 (as claimed): for notional, price, step_size, min_qty > 0 the returned
\* quantity times the price never exceeds the notional.
C3_CostWithinNotional ==
    (QtyApplied /\ use_amount > 0 /\ current_price > 0 /\ step_size > 0 /\ min_qty > 0)
        => \/ qty * current_price <= use_amount
           \/ \E f \in FloatOutcomes : QtyUnder(f) * current_price <= use_amount

\* C4 (as claimed): for notional, price, step_size > 0 the returned quantity
\* is an exact multiple of step_size.
C4_MultipleOfStep ==
    (QtyApplied /\ use_amount > 0 /\ current_price > 0 /\ step_size > 0)
        => \/ qty % step_size = 0
           \/ \E f \in FloatOutcomes : QtyUnder(f) % step_size = 0

\* C5 (as claimed): when notional/price is below min_qty the calculators
\* return 0, and every non-zero quantity they return is at least min_qty.
C5_MinimumEnforced ==
    (QtyApplied /\ current_price > 0 /\ step_size > 0)
        => /\ use_amount < min_qty * current_price => qty = 0
           /\ \/ qty # 0 => qty >= min_qty
              \/ \E f \in FloatOutcomes : QtyUnder(f) # 0 => QtyUnder(f) >= min_qty

\* C6 (as claimed): with the decision hold, execute_trade makes no exchange
\* call of any kind and always ends Skipped.
C6_HoldMakesNoCall ==
    decision = "hold"
        => /\ calls = <<>>
           /\ pc = "return" => outcome = "Skipped"

\* C6 (amended): with the decision hold, the only exchange call execute_trade
\* makes is the one spot account read it starts with (no price or lot-size
\* read, no margin or leverage change, no order); it ends Skipped when that
\* read succeeds, and aborted without a further call when it raises.
C6_HoldReadsAccountOnly ==
    decision = "hold"
        => /\ Len(calls) <= 1
           /\ \A i \in DOMAIN calls : calls[i].op = "get_account"
           /\ pc = "return"
                => /\ Len(calls) = 1
                   /\ outcome = IF calls[1].ok THEN "Skipped" ELSE "Aborted"

\* C6's case: a hold invocation has read the account and ended Skipped
C6_HoldSkipped ==
    /\ decision = "hold"
    /\ pc = "return"
    /\ outcome = "Skipped"
    /\ SnapshotTaken

\* C7: for a sell with the snapshot's free BTC below 0.0001 the invocation
\* ends Skipped without an order-placement call; otherwise it places exactly
\* one order, a spot market-sell of the whole free BTC balance.
C7_SellAllOrSkip ==
    (decision = "sell" /\ pc = "return" /\ SnapshotTaken)
        => IF my_btc_spot < MinBtcSpot
             THEN outcome = "Skipped" /\ OrderIndices = {}
             ELSE /\ OrderIndices = {Len(calls)}
                  /\ calls[Len(calls)].op = "order_market_sell"
                  /\ calls[Len(calls)].quantity = my_btc_spot
                  /\ outcome \in {"Executed", "Failed"}

\* C7's case: a sell at exactly the threshold has placed its order
C7_SellAtThreshold ==
    /\ decision = "sell"
    /\ pc = "return"
    /\ my_btc_spot = MinBtcSpot
    /\ \E i \in OrderIndices : calls[i].quantity = MinBtcSpot

\* C8 (as claimed): for a buy with free USDT below 10 the invocation ends
\* Skipped without an order; otherwise the quantity is computed from
\* balance x 0.9995, the order's cost at that price never exceeds the
\* balance, and no order is placed for a quantity of 0.
C8_BuyWithinBalance ==
    (decision = "buy" /\ pc = "return" /\ SnapshotTaken)
        => /\ my_usdt_spot < MinUsdtSpot
                => (outcome = "Skipped" /\ OrderIndices = {})
           /\ \A i \in OrderIndices :
                /\ calls[i].op = "order_market_buy"
                /\ use_amount = SpotBuyAmount(my_usdt_spot)
                /\ calls[i].quantity = qty
                /\ calls[i].quantity > 0
                /\ calls[i].quantity * current_price <= my_usdt_spot

\* C9: every futures order call is preceded, in the same invocation, by an
\* attempt to set the margin type and an attempt to set the leverage.
C9_ConfiguredBeforeOrder ==
    \A i \in DOMAIN calls :
        calls[i].op = "futures_create_order"
            => \E j, k \in 1..(i - 1) :
                  /\ j < k
                  /\ calls[j].op = "futures_change_margin_type"
                  /\ calls[k].op = "futures_change_leverage"

\* C9's case: a futures order placed after both settings had raised
C9_OrderAfterFailedConfig ==
    /\ \E i \in DOMAIN calls : calls[i].op = "futures_create_order"
    /\ \E j \in DOMAIN calls :
          calls[j].op = "futures_change_margin_type" /\ ~calls[j].ok
    /\ \E k \in DOMAIN calls :
          calls[k].op = "futures_change_leverage" /\ ~calls[k].ok

\* C10 (as claimed): for long and short the amount passed to the futures
\* quantity calculation is the whole futures balance the exchange holds at
\* that attempt.
C10_UsesFuturesBalance ==
    (decision \in {"long", "short"} /\ pc \in {"futures_order", "return"}
     /\ \E i \in DOMAIN calls : calls[i].op = "futures_exchange_info")
        => use_amount = futuresWallet

----------------------------------------------------------------------------
(* Claims on the error handling of the executor. *)

InfoOps == {"get_symbol_info", "futures_exchange_info"}
TickerOps == {"get_symbol_ticker", "futures_symbol_ticker"}
ConfigOps == {"futures_change_margin_type", "futures_change_leverage"}
\* the orders whose quantity comes from a calculator
SizedOps == {"futures_create_order", "order_market_buy"}

\* C12 (as claimed): an order sized by a calculator is placed only after the
\* lot-size read has found the symbol's LOT_SIZE filter and the price read
\* has found the price; when either is missing no order is placed, so no
\* order is sized from assumed or default values.
C12_NoOrderOnAssumedData ==
    \A i \in DOMAIN calls :
        calls[i].op \in SizedOps
            => /\ \E j \in 1..(i - 1) : calls[j].op \in InfoOps /\ calls[j].found
               /\ \E k \in 1..(i - 1) : calls[k].op \in TickerOps /\ calls[k].found

\* C13 (as claimed): when the order-placement call raises, the invocation
\* ends Failed by returning (no exception leaves execute_trade), and the
\* failure report of the attempt carries the original decision reason.
C13_FailureReportKeepsReason ==
    (pc = "return" /\ \E i \in OrderIndices : ~calls[i].ok)
        => /\ outcome = "Failed"
           /\ Len(report) >= 1
           /\ report[Len(report)].level = "error"
           /\ report[Len(report)].with_reason
           /\ report[Len(report)].reason = reason

\* C14 (as claimed): once set_isolated_margin_and_leverage is back, what it
\* handed to execute_trade tells a genuine failure from the rest: it is the
\* plain None exactly when neither setting failed for a genuine cause
\* (a "nothing to change" answer counts as success).
C14_GenuineFailureSurfaced ==
    config_result # "unset"
        => (config_result = "None"
              <=> ~\E i \in DOMAIN calls :
                     calls[i].op \in ConfigOps /\ calls[i].err = "genuine")

\* the price read has returned
TickerRead == \E i \in DOMAIN calls : calls[i].op \in TickerOps /\ calls[i].ok

\* C16: when the price read gives a price that is zero, negative or missing,
\* the calculator returns 0 and execute_trade places no order: it ends
\* Skipped.
C16_NoOrderWithoutPrice ==
    (TickerRead /\ current_price <= 0)
        => /\ qty = 0
           /\ OrderIndices = {}
           /\ pc = "return" => outcome = "Skipped"

\* C16's case: a negative price was read for a usable lot size and the
\* invocation has ended
C16_NegativePriceSkipped ==
    /\ pc = "return"
    /\ TickerRead
    /\ current_price < 0
    /\ step_size > 0
    /\ outcome = "Skipped"

\* the AI call of this cycle has raised
ApiFailed == pc # "openai_call" /\ ai_answer = NoAnswer
\* the AI answer of this cycle could not be parsed
Unparseable == ai_answer # NoAnswer /\ ParseRaises(ai_answer) # "none"
\* execute_trade is running
InTrade == pc \notin {"openai_call", "parse", "returned", "idle"}
Tradable == {"long", "short", "buy", "sell"}

\* C17: in a cycle whose AI call failed, whose AI answer could not be
\* parsed, or whose decision as handed to execute_trade is not exactly long,
\* short, buy or sell, no order-placement call and no margin-type or
\* leverage change is made.
C17_AmbiguityMeansInaction ==
    (ApiFailed \/ Unparseable \/ (InTrade /\ decision \notin Tradable))
        => \A i \in DOMAIN calls : calls[i].op \notin OrderOps \cup ConfigOps

\* C17's case: an unknown word came out of the interpreter, went through
\* execute_trade and ended Skipped
C17_UnknownWordSkipped ==
    /\ pc = "return"
    /\ ai_answer.kind = "object"
    /\ decision = "wait"
    /\ outcome = "Skipped"
    /\ SnapshotTaken

\* main_loop has been ended by a KeyboardInterrupt
Interrupted == stop \in {"stopped", "uncaught"}

\* C11: whatever is raised in a cycle is caught by the handler of the cycle,
\* after which the loop sleeps for the interval and starts the next cycle:
\* as long as no KeyboardInterrupt ends the loop, every cycle is followed by
\* a next one.
C11_NextCycleStarts ==
    \A n \in 1..(MaxCycles - 1) :
        (cycle = n /\ stop = "running") ~> (cycle = n + 1 \/ Interrupted)

\* C11's case: a cycle has started after the cycle before it had raised and
\* the loop had slept
C11_SecondCycleStarted ==
    /\ pc = "gather"
    /\ cycle >= 2
    /\ stop = "running"

\* C15 (as claimed): a stop signal ends main_loop only from the top of the
\* loop, between two cycles; within a cycle it does not take effect.
C15_StopOnlyAtCycleTop ==
    [][stop' # stop => pc = "loop_top"]_vars

\* C18: for long and short, once the futures quantity is computed, an order
\* is placed if and only if it is greater than 0; the order is the only one,
\* a futures order of that quantity with side BUY / positionSide LONG for
\* long and side SELL / positionSide SHORT for short; with quantity 0 the
\* invocation ends Skipped without an order call.
C18_FuturesOrderIffQuantity ==
    (decision \in {"long", "short"} /\ pc = "return"
     /\ \E i \in DOMAIN calls : calls[i].op = "futures_exchange_info")
        => IF qty > 0
             THEN /\ OrderIndices = {Len(calls)}
                  /\ calls[Len(calls)].op = "futures_create_order"
                  /\ calls[Len(calls)].quantity = qty
                  /\ decision = "long"
                        => /\ calls[Len(calls)].side = "BUY"
                           /\ calls[Len(calls)].positionSide = "LONG"
                  /\ decision = "short"
                        => /\ calls[Len(calls)].side = "SELL"
                           /\ calls[Len(calls)].positionSide = "SHORT"
                  /\ outcome \in {"Executed", "Failed"}
             ELSE outcome = "Skipped" /\ OrderIndices = {}

\* C18's case: a short has placed its order
C18_ShortPlaced ==
    /\ decision = "short"
    /\ pc = "return"
    /\ \E i \in OrderIndices :
          calls[i].side = "SELL" /\ calls[i].positionSide = "SHORT"
                                 /\ calls[i].quantity > 0

\* C19: for long and short, whatever the two configuration calls do, the
\* leverage call follows the margin-type call, a call that raised leaves a
\* warning and nothing else, and the invocation goes on to compute the
\* quantity and to place the order as it does after a successful
\* configuration: the outcome depends on the quantity and the order only.
C19_ConfigFailureIsWarningOnly ==
    /\ \A i \in DOMAIN calls :
          (calls[i].op = "futures_change_margin_type" /\ i < Len(calls))
              => calls[i + 1].op = "futures_change_leverage"
    /\ \A i \in DOMAIN calls :
          (calls[i].op \in ConfigOps /\ ~calls[i].ok)
              => /\ i - 1 \in DOMAIN report
                 /\ report[i - 1].level = "warning"
    /\ (decision \in {"long", "short"} /\ pc = "return" /\ SnapshotTaken)
          => /\ Len(calls) >= 4
             /\ calls[2].op = "futures_change_margin_type"
             /\ calls[3].op = "futures_change_leverage"
             /\ calls[4].op = "futures_exchange_info"
             /\ IF qty > 0
                  THEN /\ calls[Len(calls)].op = "futures_create_order"
                       /\ outcome = IF calls[Len(calls)].ok
                                      THEN "Executed" ELSE "Failed"
                  ELSE outcome = "Skipped"

\* C19's case: both settings failed for a genuine cause and the order went
\* through
C19_ExecutedAfterFailedConfig ==
    /\ pc = "return"
    /\ outcome = "Executed"
    /\ Len(calls) >= 3
    /\ calls[2].err = "genuine"
    /\ calls[3].err = "genuine"

\* the symbol's lot-size step and minimum when order i is placed: what the
\* calculator read for a sized order; for a sell, which reads neither, the
\* values the code takes for the symbol when the exchange names none
SymbolStep(i) ==
    IF calls[i].op \in SizedOps THEN step_size ELSE DefaultStepSize
SymbolMinQty(i) ==
    IF calls[i].op \in SizedOps THEN min_qty ELSE DefaultMinQty

\* C20 (as claimed): every quantity submitted in an order-placement call is
\* positive, a multiple of the symbol's lot-size step and at least its
\* minimum quantity.
C20_OrdersFitLotSize ==
    \A i \in OrderIndices :
        /\ calls[i].quantity > 0
        /\ calls[i].quantity % SymbolStep(i) = 0
        /\ calls[i].quantity >= SymbolMinQty(i)

----------------------------------------------------------------------------
(* Claims on the order of a cycle's steps. *)

\* C21 (as claimed): the trade execution can be reached from the scheduler:
\* a cycle that stands at its data gathering (data_fetcher.get_data_for_ai
\* and preprocess_data_for_api as called on the module) can pass it and go
\* on to the AI call and to execute_trade, so main_loop has a step out of
\* the data gathering that ends neither in the error handler's sleep nor in
\* the end of the loop.
C21_TradeReachableFromLoop ==
    pc = "gather" => ENABLED (LoopNext /\ pc' \notin {"error_sleep", "done"})

====
